---------------------------- MODULE Spec2Model ----------------------------
(***************************************************************************)
(* Model of Experiments/vqa-soft-accuracy.py: the VQA answer normaliser,   *)
(* the leave-one-out soft-accuracy scorer and the batch evaluation loop of *)
(* main().                                                                 *)
(*                                                                         *)
(* A Python str is a sequence of characters, each a one-character string   *)
(* (the grave accent, which a TLA+ string cannot hold, is "U+0060").  None *)
(* is the one-element sequence <<"None">>, which is no str.  A float is an *)
(* IEEE 754 double, rounded to nearest even after every operation.         *)
(***************************************************************************)
EXTENDS Integers, Sequences, FiniteSets, TLC

VARIABLES
  manual_map,          \* module-level _MANUAL_MAP (mutated by setdefault)
  in_text,             \* normaliser call: the raw argument
  stage,               \* normaliser call: "raw", "once", "twice"
  out_text,            \* normaliser call: the last result
  prev_text,           \* normaliser call: the result before the last one
  pred_answer,         \* scorer call: first argument
  human_answers,       \* scorer call: second argument
  ret,                 \* scorer call: the tuple returned, NoReturn before
  pc,                  \* main: "loop", "done" (returned 0), "error" (raised)
  args_out,            \* main: args.out is a non-empty path
  line_no,             \* _iter_jsonl: lines of responses.jsonl read so far
  row,                 \* main: the row of the last iteration
  total_lines,
  missing_in_dataset,
  acc_sum,
  count,
  detailed,
  summary,             \* main: the summary dict, NoSummary before
  report,              \* main: out_obj as written to args.out, NoReport before
  error                \* main: the line number the ValueError names, 0 if none

norm_vars == <<in_text, stage, out_text, prev_text>>
score_vars == <<pred_answer, human_answers, ret>>
main_vars == <<pc, args_out, line_no, row, total_lines, missing_in_dataset,
               acc_sum, count, detailed, summary, report, error>>
vars == <<manual_map, norm_vars, score_vars, main_vars>>

None == <<"None">>

(***************************************************************************)
(* Character classes and str methods                                       *)
(***************************************************************************)
\* \d of the two regular expressions
Digits == {"0", "1", "2", "3", "4", "5", "6", "7", "8", "9"}

\* the characters str.strip() and str.split() treat as whitespace
Whitespace == {" ", "\n", "\t"}

UpperCase == <<"A","B","C","D","E","F","G","H","I","J","K","L","M",
               "N","O","P","Q","R","S","T","U","V","W","X","Y","Z">>
LowerCase == <<"a","b","c","d","e","f","g","h","i","j","k","l","m",
               "n","o","p","q","r","s","t","u","v","w","x","y","z">>

\* str.lower() on one character
LowerChar(c) ==
  IF \E i \in 1..Len(UpperCase) : UpperCase[i] = c
  THEN LowerCase[CHOOSE i \in 1..Len(UpperCase) : UpperCase[i] = c]
  ELSE c

\* str.lower() left out
Lower_Missing(s) == s

\* str.lower()
Lower(s) == [i \in 1..Len(s) |-> LowerChar(s[i])]

\* s.replace(c, r) for a one-character c
RECURSIVE Replace(_, _, _)
Replace(s, c, r) ==
  IF s = <<>> THEN <<>>
  ELSE (IF Head(s) = c THEN r ELSE <<Head(s)>>) \o Replace(Tail(s), c, r)

RECURSIVE LStrip(_)
LStrip(s) ==
  IF s # <<>> /\ Head(s) \in Whitespace THEN LStrip(Tail(s)) ELSE s

RECURSIVE RStrip(_)
RStrip(s) ==
  IF s # <<>> /\ s[Len(s)] \in Whitespace
  THEN RStrip(SubSeq(s, 1, Len(s) - 1)) ELSE s

\* str.strip()
Strip(s) == RStrip(LStrip(s))

\* str.split(): the maximal runs of non-whitespace characters
RECURSIVE SplitFrom(_, _, _)
SplitFrom(s, cur, words) ==
  IF s = <<>> THEN (IF cur = <<>> THEN words ELSE Append(words, cur))
  ELSE IF Head(s) \in Whitespace
       THEN SplitFrom(Tail(s), <<>>,
                      IF cur = <<>> THEN words ELSE Append(words, cur))
       ELSE SplitFrom(Tail(s), Append(cur, Head(s)), words)

Split(s) == SplitFrom(s, <<>>, <<>>)

\* " ".join(words)
RECURSIVE Join(_)
Join(words) ==
  IF words = <<>> THEN <<>>
  ELSE IF Len(words) = 1 THEN words[1]
  ELSE words[1] \o <<" ">> \o Join(Tail(words))

\* a + b in s, for one-character a and b
HasPair(s, a, b) == \E i \in 1..(Len(s) - 1) : s[i] = a /\ s[i + 1] = b

(***************************************************************************)
(* Normalisation constants                                                 *)
(***************************************************************************)
\* the dict literal of lines 37-158, in source order
_CONTRACTIONS_ITEMS ==
  <<
    <<<<"a","i","n","t">>, <<"a","i","n","'","t">>>>,
    <<<<"a","r","e","n","t">>, <<"a","r","e","n","'","t">>>>,
    <<<<"c","a","n","t">>, <<"c","a","n","'","t">>>>,
    <<<<"c","o","u","l","d","v","e">>, <<"c","o","u","l","d","'","v","e">>>>,
    <<<<"c","o","u","l","d","n","t">>, <<"c","o","u","l","d","n","'","t">>>>,
    <<<<"c","o","u","l","d","n","'","t","v","e">>, <<"c","o","u","l","d","n","'","t","'","v","e">>>>,
    <<<<"c","o","u","l","d","n","t","'","v","e">>, <<"c","o","u","l","d","n","'","t","'","v","e">>>>,
    <<<<"d","i","d","n","t">>, <<"d","i","d","n","'","t">>>>,
    <<<<"d","o","e","s","n","t">>, <<"d","o","e","s","n","'","t">>>>,
    <<<<"d","o","n","t">>, <<"d","o","n","'","t">>>>,
    <<<<"h","a","d","n","t">>, <<"h","a","d","n","'","t">>>>,
    <<<<"h","a","d","n","t","'","v","e">>, <<"h","a","d","n","'","t","'","v","e">>>>,
    <<<<"h","a","d","n","'","t","v","e">>, <<"h","a","d","n","'","t","'","v","e">>>>,
    <<<<"h","a","s","n","t">>, <<"h","a","s","n","'","t">>>>,
    <<<<"h","a","v","e","n","t">>, <<"h","a","v","e","n","'","t">>>>,
    <<<<"h","e","d">>, <<"h","e","'","d">>>>,
    <<<<"h","e","d","'","v","e">>, <<"h","e","'","d","'","v","e">>>>,
    <<<<"h","e","'","d","v","e">>, <<"h","e","'","d","'","v","e">>>>,
    <<<<"h","e","s">>, <<"h","e","'","s">>>>,
    <<<<"h","o","w","d">>, <<"h","o","w","'","d">>>>,
    <<<<"h","o","w","l","l">>, <<"h","o","w","'","l","l">>>>,
    <<<<"h","o","w","s">>, <<"h","o","w","'","s">>>>,
    <<<<"i","d","'","v","e">>, <<"i","'","d","'","v","e">>>>,
    <<<<"i","'","d","v","e">>, <<"i","'","d","'","v","e">>>>,
    <<<<"i","m">>, <<"i","'","m">>>>,
    <<<<"i","v","e">>, <<"i","'","v","e">>>>,
    <<<<"i","s","n","t">>, <<"i","s","n","'","t">>>>,
    <<<<"i","t","d">>, <<"i","t","'","d">>>>,
    <<<<"i","t","d","'","v","e">>, <<"i","t","'","d","'","v","e">>>>,
    <<<<"i","t","'","d","v","e">>, <<"i","t","'","d","'","v","e">>>>,
    <<<<"i","t","l","l">>, <<"i","t","'","l","l">>>>,
    <<<<"l","e","t","'","s">>, <<"l","e","t","'","s">>>>,
    <<<<"m","a","a","m">>, <<"m","a","'","a","m">>>>,
    <<<<"m","i","g","h","t","n","t">>, <<"m","i","g","h","t","n","'","t">>>>,
    <<<<"m","i","g","h","t","n","t","'","v","e">>, <<"m","i","g","h","t","n","'","t","'","v","e">>>>,
    <<<<"m","i","g","h","t","n","'","t","v","e">>, <<"m","i","g","h","t","n","'","t","'","v","e">>>>,
    <<<<"m","i","g","h","t","v","e">>, <<"m","i","g","h","t","'","v","e">>>>,
    <<<<"m","u","s","t","n","t">>, <<"m","u","s","t","n","'","t">>>>,
    <<<<"m","u","s","t","v","e">>, <<"m","u","s","t","'","v","e">>>>,
    <<<<"n","e","e","d","n","t">>, <<"n","e","e","d","n","'","t">>>>,
    <<<<"n","o","t","v","e">>, <<"n","o","t","'","v","e">>>>,
    <<<<"o","c","l","o","c","k">>, <<"o","'","c","l","o","c","k">>>>,
    <<<<"o","u","g","h","t","n","t">>, <<"o","u","g","h","t","n","'","t">>>>,
    <<<<"o","w","'","s","'","a","t">>, <<"'","o","w","'","s","'","a","t">>>>,
    <<<<"'","o","w","s","'","a","t">>, <<"'","o","w","'","s","'","a","t">>>>,
    <<<<"'","o","w","'","s","a","t">>, <<"'","o","w","'","s","'","a","t">>>>,
    <<<<"s","h","a","n","t">>, <<"s","h","a","n","'","t">>>>,
    <<<<"s","h","e","d","'","v","e">>, <<"s","h","e","'","d","'","v","e">>>>,
    <<<<"s","h","e","'","d","v","e">>, <<"s","h","e","'","d","'","v","e">>>>,
    <<<<"s","h","e","'","s">>, <<"s","h","e","'","s">>>>,
    <<<<"s","h","o","u","l","d","v","e">>, <<"s","h","o","u","l","d","'","v","e">>>>,
    <<<<"s","h","o","u","l","d","n","t">>, <<"s","h","o","u","l","d","n","'","t">>>>,
    <<<<"s","h","o","u","l","d","n","t","'","v","e">>, <<"s","h","o","u","l","d","n","'","t","'","v","e">>>>,
    <<<<"s","h","o","u","l","d","n","'","t","v","e">>, <<"s","h","o","u","l","d","n","'","t","'","v","e">>>>,
    <<<<"s","o","m","e","b","o","d","y","'","d">>, <<"s","o","m","e","b","o","d","y","d">>>>,
    <<<<"s","o","m","e","b","o","d","y","d","'","v","e">>, <<"s","o","m","e","b","o","d","y","'","d","'","v","e">>>>,
    <<<<"s","o","m","e","b","o","d","y","'","d","v","e">>, <<"s","o","m","e","b","o","d","y","'","d","'","v","e">>>>,
    <<<<"s","o","m","e","b","o","d","y","l","l">>, <<"s","o","m","e","b","o","d","y","'","l","l">>>>,
    <<<<"s","o","m","e","b","o","d","y","s">>, <<"s","o","m","e","b","o","d","y","'","s">>>>,
    <<<<"s","o","m","e","o","n","e","d">>, <<"s","o","m","e","o","n","e","'","d">>>>,
    <<<<"s","o","m","e","o","n","e","d","'","v","e">>, <<"s","o","m","e","o","n","e","'","d","'","v","e">>>>,
    <<<<"s","o","m","e","o","n","e","'","d","v","e">>, <<"s","o","m","e","o","n","e","'","d","'","v","e">>>>,
    <<<<"s","o","m","e","o","n","e","l","l">>, <<"s","o","m","e","o","n","e","'","l","l">>>>,
    <<<<"s","o","m","e","o","n","e","s">>, <<"s","o","m","e","o","n","e","'","s">>>>,
    <<<<"s","o","m","e","t","h","i","n","g","d">>, <<"s","o","m","e","t","h","i","n","g","'","d">>>>,
    <<<<"s","o","m","e","t","h","i","n","g","d","'","v","e">>, <<"s","o","m","e","t","h","i","n","g","'","d","'","v","e">>>>,
    <<<<"s","o","m","e","t","h","i","n","g","'","d","v","e">>, <<"s","o","m","e","t","h","i","n","g","'","d","'","v","e">>>>,
    <<<<"s","o","m","e","t","h","i","n","g","l","l">>, <<"s","o","m","e","t","h","i","n","g","'","l","l">>>>,
    <<<<"t","h","a","t","s">>, <<"t","h","a","t","'","s">>>>,
    <<<<"t","h","e","r","e","d">>, <<"t","h","e","r","e","'","d">>>>,
    <<<<"t","h","e","r","e","d","'","v","e">>, <<"t","h","e","r","e","'","d","'","v","e">>>>,
    <<<<"t","h","e","r","e","'","d","v","e">>, <<"t","h","e","r","e","'","d","'","v","e">>>>,
    <<<<"t","h","e","r","e","r","e">>, <<"t","h","e","r","e","'","r","e">>>>,
    <<<<"t","h","e","r","e","s">>, <<"t","h","e","r","e","'","s">>>>,
    <<<<"t","h","e","y","d">>, <<"t","h","e","y","'","d">>>>,
    <<<<"t","h","e","y","d","'","v","e">>, <<"t","h","e","y","'","d","'","v","e">>>>,
    <<<<"t","h","e","y","'","d","v","e">>, <<"t","h","e","y","'","d","'","v","e">>>>,
    <<<<"t","h","e","y","l","l">>, <<"t","h","e","y","'","l","l">>>>,
    <<<<"t","h","e","y","r","e">>, <<"t","h","e","y","'","r","e">>>>,
    <<<<"t","h","e","y","v","e">>, <<"t","h","e","y","'","v","e">>>>,
    <<<<"t","w","a","s">>, <<"'","t","w","a","s">>>>,
    <<<<"w","a","s","n","t">>, <<"w","a","s","n","'","t">>>>,
    <<<<"w","e","d","'","v","e">>, <<"w","e","'","d","'","v","e">>>>,
    <<<<"w","e","'","d","v","e">>, <<"w","e","'","d","'","v","e">>>>,
    <<<<"w","e","v","e">>, <<"w","e","'","v","e">>>>,
    <<<<"w","e","r","e","n","t">>, <<"w","e","r","e","n","'","t">>>>,
    <<<<"w","h","a","t","l","l">>, <<"w","h","a","t","'","l","l">>>>,
    <<<<"w","h","a","t","r","e">>, <<"w","h","a","t","'","r","e">>>>,
    <<<<"w","h","a","t","s">>, <<"w","h","a","t","'","s">>>>,
    <<<<"w","h","a","t","v","e">>, <<"w","h","a","t","'","v","e">>>>,
    <<<<"w","h","e","n","s">>, <<"w","h","e","n","'","s">>>>,
    <<<<"w","h","e","r","e","d">>, <<"w","h","e","r","e","'","d">>>>,
    <<<<"w","h","e","r","e","s">>, <<"w","h","e","r","e","'","s">>>>,
    <<<<"w","h","e","r","e","v","e">>, <<"w","h","e","r","e","'","v","e">>>>,
    <<<<"w","h","o","d">>, <<"w","h","o","'","d">>>>,
    <<<<"w","h","o","d","'","v","e">>, <<"w","h","o","'","d","'","v","e">>>>,
    <<<<"w","h","o","'","d","v","e">>, <<"w","h","o","'","d","'","v","e">>>>,
    <<<<"w","h","o","l","l">>, <<"w","h","o","'","l","l">>>>,
    <<<<"w","h","o","s">>, <<"w","h","o","'","s">>>>,
    <<<<"w","h","o","v","e">>, <<"w","h","o","'","v","e">>>>,
    <<<<"w","h","y","l","l">>, <<"w","h","y","'","l","l">>>>,
    <<<<"w","h","y","r","e">>, <<"w","h","y","'","r","e">>>>,
    <<<<"w","h","y","s">>, <<"w","h","y","'","s">>>>,
    <<<<"w","o","n","t">>, <<"w","o","n","'","t">>>>,
    <<<<"w","o","u","l","d","v","e">>, <<"w","o","u","l","d","'","v","e">>>>,
    <<<<"w","o","u","l","d","n","t">>, <<"w","o","u","l","d","n","'","t">>>>,
    <<<<"w","o","u","l","d","n","t","'","v","e">>, <<"w","o","u","l","d","n","'","t","'","v","e">>>>,
    <<<<"w","o","u","l","d","n","'","t","v","e">>, <<"w","o","u","l","d","n","'","t","'","v","e">>>>,
    <<<<"y","a","l","l">>, <<"y","'","a","l","l">>>>,
    <<<<"y","a","l","l","'","l","l">>, <<"y","'","a","l","l","'","l","l">>>>,
    <<<<"y","'","a","l","l","l","l">>, <<"y","'","a","l","l","'","l","l">>>>,
    <<<<"y","a","l","l","'","d","'","v","e">>, <<"y","'","a","l","l","'","d","'","v","e">>>>,
    <<<<"y","'","a","l","l","d","'","v","e">>, <<"y","'","a","l","l","'","d","'","v","e">>>>,
    <<<<"y","'","a","l","l","'","d","v","e">>, <<"y","'","a","l","l","'","d","'","v","e">>>>,
    <<<<"y","o","u","d">>, <<"y","o","u","'","d">>>>,
    <<<<"y","o","u","d","'","v","e">>, <<"y","o","u","'","d","'","v","e">>>>,
    <<<<"y","o","u","'","d","v","e">>, <<"y","o","u","'","d","'","v","e">>>>,
    <<<<"y","o","u","l","l">>, <<"y","o","u","'","l","l">>>>,
    <<<<"y","o","u","r","e">>, <<"y","o","u","'","r","e">>>>,
    <<<<"y","o","u","v","e">>, <<"y","o","u","'","v","e">>>>
  >>

\* the dict literal of lines 160-173
_MANUAL_MAP_ITEMS ==
  <<
    <<<<"n","o","n","e">>, <<"0">>>>,
    <<<<"z","e","r","o">>, <<"0">>>>,
    <<<<"o","n","e">>, <<"1">>>>,
    <<<<"t","w","o">>, <<"2">>>>,
    <<<<"t","h","r","e","e">>, <<"3">>>>,
    <<<<"f","o","u","r">>, <<"4">>>>,
    <<<<"f","i","v","e">>, <<"5">>>>,
    <<<<"s","i","x">>, <<"6">>>>,
    <<<<"s","e","v","e","n">>, <<"7">>>>,
    <<<<"e","i","g","h","t">>, <<"8">>>>,
    <<<<"n","i","n","e">>, <<"9">>>>,
    <<<<"t","e","n">>, <<"1","0">>>>
  >>

\* a dict literal as a function
DictOf(items) ==
  [k \in {items[i][1] : i \in 1..Len(items)} |->
     items[CHOOSE i \in 1..Len(items) :
             items[i][1] = k /\ \A j \in (i + 1)..Len(items) : items[j][1] # k][2]]

_CONTRACTIONS == DictOf(_CONTRACTIONS_ITEMS)

_MANUAL_MAP == DictOf(_MANUAL_MAP_ITEMS)

_ARTICLES == {<<"a">>, <<"a","n">>, <<"t","h","e">>}

\* the character U+0060 of line 197
GRAVE == "U+0060"

_PUNCT_LIST ==
  <<";", "/", "[", "]", "\"", "{", "}", "(", ")", "=", "+", "\\", "_", "-",
    ">", "<", "@", GRAVE, ",", "?", "!">>

\* re.UNICODE, which line 217 passes to Pattern.sub in the position of count
RE_UNICODE == 32

(***************************************************************************)
(* The normaliser                                                          *)
(***************************************************************************)
\* _preclean without the test of line 205: None is treated as a value
\* of its own
_preclean_NoNone(s) ==
  Strip(Replace(Replace(s, "\n", <<" ">>), "\t", <<" ">>))

_preclean(s) ==
  IF s = None THEN <<>>
  ELSE Strip(Replace(Replace(s, "\n", <<" ">>), "\t", <<" ">>))

\* re.search(_COMMA_STRIP, s) is not None, for (\d)(\,)(\d)
_COMMA_STRIP(s) ==
  \E i \in 1..(Len(s) - 2) :
     s[i] \in Digits /\ s[i + 1] = "," /\ s[i + 2] \in Digits

\* _PERIOD_STRIP, (?!<=\d)(\.)(?!\d), matches at position i of s: the first
\* group is a negative lookahead for the text "<=" and a digit
_PERIOD_STRIP(s, i) ==
  /\ ~(i + 2 <= Len(s) /\ s[i] = "<" /\ s[i + 1] = "=" /\ s[i + 2] \in Digits)
  /\ s[i] = "."
  /\ ~(i + 1 <= Len(s) /\ s[i + 1] \in Digits)

\* _PERIOD_STRIP.sub("", s, cnt) from position i on: the leftmost cnt
\* matches are deleted, cnt = 0 meaning all of them
RECURSIVE PeriodSub(_, _, _, _)
PeriodSub(s, i, cnt, left) ==
  IF i > Len(s) THEN <<>>
  ELSE IF _PERIOD_STRIP(s, i) /\ (cnt = 0 \/ left > 0)
       THEN PeriodSub(s, i + 1, cnt, left - 1)
       ELSE <<s[i]>> \o PeriodSub(s, i + 1, cnt, left)

\* the condition of line 213 for the mark p
PunctDeleted(p, text) ==
  (HasPair(text, p, " ") \/ HasPair(text, " ", p)) \/ _COMMA_STRIP(text)

\* the loop of lines 212-216, from the i-th mark on
RECURSIVE PunctLoop(_, _, _)
PunctLoop(text, out, i) ==
  IF i > Len(_PUNCT_LIST) THEN out
  ELSE LET p == _PUNCT_LIST[i]
       IN  PunctLoop(text,
                     IF PunctDeleted(p, text) THEN Replace(out, p, <<>>)
                     ELSE Replace(out, p, <<" ">>),
                     i + 1)

_process_punctuation(text) ==
  LET out == PunctLoop(text, text, 1)
  IN  PeriodSub(out, 1, RE_UNICODE, RE_UNICODE)

\* line 225 inserting "" for a word seen for the first time
SetDefault_WrongDefault(map, w) ==
  IF w \in DOMAIN map THEN [val |-> map[w], map |-> map]
  ELSE [val |-> w, map |-> map @@ (w :> <<>>)]

\* line 225 as "_MANUAL_MAP.setdefault(w, w)" with the value not assigned
SetDefault_Ignored(map, w) ==
  [val |-> w, map |-> IF w \in DOMAIN map THEN map ELSE map @@ (w :> w)]

\* _MANUAL_MAP.setdefault(w, w): the value returned and the dict afterwards
SetDefault(map, w) ==
  IF w \in DOMAIN map THEN [val |-> map[w], map |-> map]
  ELSE [val |-> w, map |-> map @@ (w :> w)]

\* the loop of lines 224-227 over the words from the i-th on
RECURSIVE DigitArticleLoop(_, _, _, _)
DigitArticleLoop(words, i, out_words, map) ==
  IF i > Len(words) THEN [out_words |-> out_words, map |-> map]
  ELSE LET r == SetDefault(map, words[i])
       IN  DigitArticleLoop(words, i + 1,
                            IF r.val \notin _ARTICLES
                            THEN Append(out_words, r.val) ELSE out_words,
                            r.map)

\* the loop of lines 229-231 left out
Contract_Missing(out_words) == out_words

\* the loop of lines 229-231
Contract(out_words) ==
  [i \in 1..Len(out_words) |->
     IF out_words[i] \in DOMAIN _CONTRACTIONS
     THEN _CONTRACTIONS[out_words[i]] ELSE out_words[i]]

\* the string returned and _MANUAL_MAP afterwards
_process_digit_article(text, map) ==
  LET r == DigitArticleLoop(Split(Lower(text)), 1, <<>>, map)
  IN  [out |-> Join(Contract(r.out_words)), map |-> r.map]

\* the full pipeline: preclean, punctuation pass, digit/article pass
normalize(s, map) ==
  _process_digit_article(_process_punctuation(_preclean(s)), map)

(***************************************************************************)
(* float: IEEE 754 binary64, round to nearest even.  Every float the       *)
(* program computes is zero or a positive normal number, held as           *)
(* [e, m]: m is the 53-bit significand, most significant bit first, and    *)
(* the value is the sum of m[i] * 2^(e + 1 - i); zero has m all 0.         *)
(***************************************************************************)
\* sys.float_info.mant_dig
MantDig == 53

Zeros(n) == [i \in 1..n |-> 0]

Zero == [e |-> 0, m |-> Zeros(MantDig)]

IsZero(a) == a.m[1] = 0

\* the binary digits of a positive integer, most significant first
RECURSIVE Bits(_)
Bits(n) == IF n < 2 THEN <<n>> ELSE Append(Bits(n \div 2), n % 2)

\* float(n) for an integer 0 <= n < 2^53
float(n) ==
  IF n = 0 THEN Zero
  ELSE LET b == Bits(n)
       IN  [e |-> Len(b) - 1, m |-> b \o Zeros(MantDig - Len(b))]

One == float(1)

\* bits + 1, one digit longer when every digit is 1
Inc(bits) ==
  LET n == Len(bits)
      zeros == {i \in 1..n : bits[i] = 0}
  IN  IF zeros = {} THEN <<1>> \o Zeros(n)
      ELSE LET z == CHOOSE i \in zeros : \A j \in zeros : j <= i
           IN  [i \in 1..n |-> IF i < z THEN bits[i]
                               ELSE IF i = z THEN 1 ELSE 0]

\* the float nearest to the number whose binary digits are bits (bits[1] is
\* 1 and has weight 2^e) plus, when sticky, a positive amount below the
\* last digit; a tie goes to the even significand
Round(e, bits, sticky) ==
  LET keep == SubSeq(bits, 1, MantDig)
      half == Len(bits) > MantDig /\ bits[MantDig + 1] = 1
      rest == sticky \/ \E i \in (MantDig + 2)..Len(bits) : bits[i] = 1
      up == half /\ (rest \/ keep[MantDig] = 1)
      inc == Inc(keep)
  IN  IF ~up THEN [e |-> e, m |-> keep]
      ELSE IF Len(inc) > MantDig THEN [e |-> e + 1, m |-> SubSeq(inc, 1, MantDig)]
      ELSE [e |-> e, m |-> inc]

\* the carry into digit i of x + y: some digit to the right generates a
\* carry and every digit in between passes it on
Carry(x, y, i) ==
  \E j \in (i + 1)..Len(x) :
    /\ x[j] + y[j] = 2
    /\ \A k \in (i + 1)..(j - 1) : x[k] + y[k] = 1

\* x + y for two digit strings of one length, with the carry in front
AddBits(x, y) ==
  [i \in 1..(Len(x) + 1) |->
     IF i = 1 THEN (IF Carry(x, y, 0) THEN 1 ELSE 0)
     ELSE (x[i - 1] + y[i - 1] + (IF Carry(x, y, i - 1) THEN 1 ELSE 0)) % 2]

\* a + b
FAdd(a, b) ==
  IF IsZero(a) THEN b
  ELSE IF IsZero(b) THEN a
  ELSE LET hi == IF a.e >= b.e THEN a ELSE b
           lo == IF a.e >= b.e THEN b ELSE a
           d == hi.e - lo.e
       IN  IF d > MantDig + 1 THEN hi
           ELSE LET s == AddBits(hi.m \o Zeros(d), Zeros(d) \o lo.m)
                IN  IF s[1] = 1 THEN Round(hi.e + 1, s, FALSE)
                    ELSE Round(hi.e, Tail(s), FALSE)

\* x < y for two digit strings of one length
BitsLess(x, y) ==
  \E i \in 1..Len(x) : x[i] < y[i] /\ \A k \in 1..(i - 1) : x[k] = y[k]

\* a <= b
FLeq(a, b) ==
  IF IsZero(a) THEN TRUE
  ELSE IF IsZero(b) THEN FALSE
  ELSE IF a.e # b.e THEN a.e < b.e
  ELSE ~BitsLess(b.m, a.m)

\* min(a, b)
FMin(a, b) == IF FLeq(b, a) /\ b # a THEN b ELSE a

\* long division of the digits lo..hi of bits by n, entered with the
\* remainder r: the quotient digits and the remainder left
RECURSIVE LongDiv(_, _, _, _, _)
LongDiv(bits, n, lo, hi, r) ==
  IF lo = hi
  THEN LET t == 2 * r + bits[lo]
       IN  IF t >= n THEN [q |-> <<1>>, r |-> t - n]
           ELSE [q |-> <<0>>, r |-> t]
  ELSE LET mid == (lo + hi) \div 2
           left == LongDiv(bits, n, lo, mid, r)
           right == LongDiv(bits, n, mid + 1, hi, left.r)
       IN  [q |-> left.q \o right.q, r |-> right.r]

\* a / float(n) for a positive integer n: the quotient starts within
\* Len(Bits(n)) + 1 digits
FDiv(a, n) ==
  IF IsZero(a) THEN Zero
  ELSE LET w == Len(Bits(n)) + 1
           d == LongDiv(a.m \o Zeros(w), n, 1, MantDig + w, 0)
           p == CHOOSE i \in 1..w :
                  d.q[i] = 1 /\ \A j \in 1..(i - 1) : d.q[j] = 0
       IN  Round(a.e + 1 - p, SubSeq(d.q, p, Len(d.q)), d.r # 0)

\* sum(fs): 0 + fs[1] + fs[2] + ..., left to right
RECURSIVE FSumFrom(_, _, _)
FSumFrom(fs, i, total) ==
  IF i > Len(fs) THEN total ELSE FSumFrom(fs, i + 1, FAdd(total, fs[i]))

FSum(fs) == FSumFrom(fs, 1, Zero)

(***************************************************************************)
(* The scorer                                                              *)
(***************************************************************************)
\* line 240 without set(): any two references open the gate
do_norm_NoSet(gt_clean) == Len(gt_clean) > 1

\* line 240 dropped: the full pipeline is always applied
do_norm_Always(gt_clean) == TRUE

\* line 240 with "!= 1" for "> 1": the gate opens for an empty list
do_norm_NotOne(gt_clean) ==
  Cardinality({gt_clean[i] : i \in 1..Len(gt_clean)}) # 1

\* line 240: len(set(gt_clean)) > 1
do_norm(gt_clean) == Cardinality({gt_clean[i] : i \in 1..Len(gt_clean)}) > 1

\* the comprehension of line 244 from the i-th reference on: the strings and
\* _MANUAL_MAP afterwards
RECURSIVE NormAll(_, _, _, _)
NormAll(gt_clean, i, gt_norm, map) ==
  IF i > Len(gt_clean) THEN [out |-> gt_norm, map |-> map]
  ELSE LET r == _process_digit_article(_process_punctuation(gt_clean[i]), map)
       IN  NormAll(gt_clean, i + 1, Append(gt_norm, r.out), r.map)

_maybe_normalize_for_vqa(gt_answers, pred, map) ==
  LET gt_clean == [i \in 1..Len(gt_answers) |-> _preclean(gt_answers[i])]
      pred_clean == _preclean(pred)
  IN  IF ~do_norm(gt_clean)
      THEN [humans_used |-> gt_clean, pred_used |-> pred_clean,
            used_norm |-> FALSE, map |-> map]
      ELSE LET g == NormAll(gt_clean, 1, <<>>, map)
               p == _process_digit_article(_process_punctuation(pred_clean),
                                           g.map)
           IN  [humans_used |-> g.out, pred_used |-> p.out,
                used_norm |-> TRUE, map |-> p.map]

\* line 252 with "pred_used in h" for "h == pred_used": a substring test
m_total_Substring(humans_used, pred_used) ==
  Cardinality({j \in 1..Len(humans_used) :
                 \E k \in 0..(Len(humans_used[j]) - Len(pred_used)) :
                    SubSeq(humans_used[j], k + 1, k + Len(pred_used))
                      = pred_used})

\* line 252 counting distinct matching references
m_total_Distinct(humans_used, pred_used) ==
  Cardinality({humans_used[j] : j \in 1..Len(humans_used)} \cap {pred_used})

\* line 252: sum(1 for h in humans_used if h == pred_used)
m_total(humans_used, pred_used) ==
  Cardinality({j \in 1..Len(humans_used) : humans_used[j] = pred_used})

\* lines 256-257 without "if j != i": no reference is left out
matching_All(humans_used, pred_used, i) ==
  Cardinality({j \in 1..Len(humans_used) : humans_used[j] = pred_used})

\* lines 256-257 with len(other) for the count of line 257
matching_Others(humans_used, pred_used, i) ==
  Cardinality({j \in 1..Len(humans_used) : j # i})

\* lines 256-257: the references other than the i-th that equal pred_used
matching(humans_used, pred_used, i) ==
  Cardinality({j \in 1..Len(humans_used) :
                 j # i /\ humans_used[j] = pred_used})

\* lines 254-258 without min(1.0, ...)
gt_acc_NoMin(humans_used, pred_used) ==
  [i \in 1..Len(humans_used) |->
     FDiv(float(matching(humans_used, pred_used, i)), 3)]

\* lines 254-258 with 2.0 for 3.0
gt_acc_Div2(humans_used, pred_used) ==
  [i \in 1..Len(humans_used) |->
     FMin(One, FDiv(float(matching(humans_used, pred_used, i)), 2))]

\* lines 254-258
gt_acc(humans_used, pred_used) ==
  [i \in 1..Len(humans_used) |->
     FMin(One, FDiv(float(matching(humans_used, pred_used, i)), 3))]

\* line 260
MeanAcc(accs) == IF accs # <<>> THEN FDiv(FSum(accs), Len(accs)) ELSE Zero

\* the tuple returned, and _MANUAL_MAP afterwards
vqa_official_accuracy(pred, humans, map) ==
  LET n == _maybe_normalize_for_vqa(humans, pred, map)
  IN  [acc |-> MeanAcc(gt_acc(n.humans_used, n.pred_used)),
       m_total |-> m_total(n.humans_used, n.pred_used),
       pred_used |-> n.pred_used,
       humans_used |-> n.humans_used,
       used_norm |-> n.used_norm,
       map |-> n.map]

(***************************************************************************)
(* JSON values, dict.get and str()                                         *)
(***************************************************************************)
JStr(s) == [t |-> "str", v |-> s]
JInt(n) == [t |-> "int", v |-> n]
JList(l) == [t |-> "list", v |-> l]
JNull == [t |-> "null", v |-> <<>>]

\* d.get(key, default) on a JSON object
Get(d, key, default) == IF key \in DOMAIN d THEN d[key] ELSE default

DigitChars == <<"0", "1", "2", "3", "4", "5", "6", "7", "8", "9">>

RECURSIVE Decimal(_)
Decimal(n) ==
  IF n < 10 THEN <<DigitChars[n + 1]>>
  ELSE Decimal(n \div 10) \o <<DigitChars[(n % 10) + 1]>>

\* str(x) for a JSON string, a JSON null and a non-negative JSON integer
PyStr(j) ==
  CASE j.t = "str" -> j.v
    [] j.t = "null" -> <<"N","o","n","e">>
    [] j.t = "int" -> Decimal(j.v)

(***************************************************************************)
(* The files main() reads                                                  *)
(***************************************************************************)
red == <<"r","e","d">>
blue == <<"b","l","u","e">>
RedDot == <<"R","e","d",".">>
two == <<"t","w","o">>

\* prepared.json: samples with differing references, with unanimous
\* references, with no references, with answers that are no list, with no
\* answers key, with integer id and answers, and with two differing
\* references
PreparedItems ==
  << [id |-> JStr(<<"s","1">>), question |-> JStr(<<"q">>),
      answers |-> JList(<<JStr(red), JStr(RedDot), JStr(blue), JStr(red)>>)],
     [id |-> JStr(<<"s","2">>), question |-> JStr(<<"q">>),
      answers |-> JList(<<JStr(red), JStr(red), JStr(red)>>)],
     [id |-> JStr(<<"s","3">>), question |-> JStr(<<"q">>),
      answers |-> JList(<<>>)],
     [id |-> JStr(<<"s","4">>), answers |-> JStr(red)],
     [id |-> JStr(<<"s","5">>), question |-> JStr(<<"q">>)],
     [id |-> JInt(7), answers |-> JList(<<JInt(2), JStr(two)>>)],
     [id |-> JStr(<<"s","6">>), question |-> JStr(<<"q">>),
      answers |-> JList(<<JStr(red), JStr(blue)>>)] >>

_load_prepared_dataset(data) ==
  [sid \in {PyStr(Get(data[i], "id", JNull)) : i \in 1..Len(data)} |->
     data[CHOOSE i \in 1..Len(data) :
            /\ PyStr(Get(data[i], "id", JNull)) = sid
            /\ \A j \in (i + 1)..Len(data) :
                 PyStr(Get(data[j], "id", JNull)) # sid]]

dataset_by_id == _load_prepared_dataset(PreparedItems)

\* the rows a line of responses.jsonl may hold
Rows ==
  { [preprocessor |-> JStr(<<"A">>), sample_id |-> JStr(sid),
     assistant_text |-> JStr(red)] :
      sid \in {<<"s","1">>, <<"s","2">>, <<"s","3">>, <<"s","4">>,
               <<"s","5">>, <<"s","6">>, <<"z","z">>} }
  \cup
  { [sample_id |-> JStr(sid), assistant_text |-> JStr(RedDot)] :
      sid \in {<<"s","1">>, <<"s","2">>, <<"z","z">>} }
  \cup
  { [preprocessor |-> JStr(<<"A">>), assistant_text |-> JStr(red)],
    [preprocessor |-> JStr(<<"B">>), sample_id |-> JStr(<<"s","1">>)],
    [preprocessor |-> JStr(<<"B">>), sample_id |-> JInt(7),
     assistant_text |-> JInt(2)] }

\* the lines of responses.jsonl read in one run
MaxLines == 3

NoRow == [none |-> TRUE]
NoSummary == [none |-> TRUE]
NoReport == [none |-> TRUE]
NoReturn == [none |-> TRUE]

(***************************************************************************)
(* main()                                                                  *)
(***************************************************************************)
UNKNOWN == <<"U","N","K","N","O","W","N">>

\* acc_sum[k] += x on a defaultdict(float)
AddAcc(d, k, x) ==
  IF k \in DOMAIN d THEN [d EXCEPT ![k] = FAdd(d[k], x)]
  ELSE d @@ (k :> FAdd(Zero, x))

\* line 374 as "for q in count: count[q] += 1" after count[k] += 0
AddCount_All(d, k) ==
  [q \in DOMAIN d \cup {k} |-> IF q \in DOMAIN d THEN d[q] + 1 ELSE 0 + 1]

\* count[k] += 1 on a defaultdict(int)
AddCount(d, k) ==
  IF k \in DOMAIN d THEN [d EXCEPT ![k] = d[k] + 1]
  ELSE d @@ (k :> 0 + 1)

\* lines 362-364 without the increment
RowMissing_NotCounted ==
  UNCHANGED <<missing_in_dataset, acc_sum, count, detailed, manual_map>>

\* lines 362-364
RowMissing ==
  /\ missing_in_dataset' = missing_in_dataset + 1
  /\ UNCHANGED <<acc_sum, count, detailed, manual_map>>

\* lines 368-369
RowUnscorable ==
  UNCHANGED <<missing_in_dataset, acc_sum, count, detailed, manual_map>>

\* lines 371-389 with detailed.insert(0, ...) for detailed.append(...)
RowScored_Prepend(preproc, sample_id, prompt, pred, answers) ==
  LET r == vqa_official_accuracy(
             pred, [i \in 1..Len(answers) |-> PyStr(answers[i])], manual_map)
  IN  /\ manual_map' = r.map
      /\ acc_sum' = AddAcc(acc_sum, preproc, r.acc)
      /\ count' = AddCount(count, preproc)
      /\ detailed' =
           IF args_out
           THEN <<[preprocessor |-> preproc,
                   sample_id |-> sample_id,
                   question |-> prompt,
                   prediction_raw |-> pred,
                   prediction_used_for_eval |-> r.pred_used,
                   human_answers_used_for_eval |-> r.humans_used,
                   used_normalization |-> r.used_norm,
                   matches_m_total |-> r.m_total,
                   accuracy_official_vqa |-> r.acc]>> \o detailed
           ELSE detailed
      /\ UNCHANGED missing_in_dataset

\* lines 371-389
RowScored(preproc, sample_id, prompt, pred, answers) ==
  LET r == vqa_official_accuracy(
             pred, [i \in 1..Len(answers) |-> PyStr(answers[i])], manual_map)
  IN  /\ manual_map' = r.map
      /\ acc_sum' = AddAcc(acc_sum, preproc, r.acc)
      /\ count' = AddCount(count, preproc)
      /\ detailed' =
           IF args_out
           THEN Append(detailed,
                       [preprocessor |-> preproc,
                        sample_id |-> sample_id,
                        question |-> prompt,
                        prediction_raw |-> pred,
                        prediction_used_for_eval |-> r.pred_used,
                        human_answers_used_for_eval |-> r.humans_used,
                        used_normalization |-> r.used_norm,
                        matches_m_total |-> r.m_total,
                        accuracy_official_vqa |-> r.acc])
           ELSE detailed
      /\ UNCHANGED missing_in_dataset

\* one iteration of the loop of lines 354-389 on the row r
ReadRow(r) ==
  /\ pc = "loop"
  /\ line_no < MaxLines
  /\ line_no' = line_no + 1
  /\ row' = r
  /\ total_lines' = total_lines + 1
  /\ LET preproc == PyStr(Get(r, "preprocessor", JStr(UNKNOWN)))
         sample_id == PyStr(Get(r, "sample_id", JStr(<<>>)))
         pred == PyStr(Get(r, "assistant_text", JStr(<<>>)))
     IN  IF sample_id \notin DOMAIN dataset_by_id
         THEN RowMissing
         ELSE LET item == dataset_by_id[sample_id]
                  prompt == PyStr(Get(item, "question", JStr(<<>>)))
                  answers == Get(item, "answers", JList(<<>>))
              IN  IF answers.t # "list" \/ Len(answers.v) = 0
                  THEN RowUnscorable
                  ELSE RowScored(preproc, sample_id, prompt, pred, answers.v)
  /\ UNCHANGED <<pc, args_out, summary, report, error>>
  /\ UNCHANGED <<norm_vars, score_vars>>

\* lines 280-282: a blank line is skipped
ReadBlank ==
  /\ pc = "loop"
  /\ line_no < MaxLines
  /\ line_no' = line_no + 1
  /\ UNCHANGED <<pc, args_out, row, total_lines, missing_in_dataset, acc_sum,
                 count, detailed, summary, report, error>>
  /\ UNCHANGED <<manual_map, norm_vars, score_vars>>

\* lines 283-286 naming the index of the record instead of line_no
ReadMalformed_RecordIndex ==
  /\ pc = "loop"
  /\ line_no < MaxLines
  /\ line_no' = line_no + 1
  /\ error' = total_lines + 1
  /\ pc' = "error"
  /\ UNCHANGED <<args_out, row, total_lines, missing_in_dataset, acc_sum,
                 count, detailed, summary, report>>
  /\ UNCHANGED <<manual_map, norm_vars, score_vars>>

\* lines 283-286: a line that is no JSON raises ValueError out of main
ReadMalformed ==
  /\ pc = "loop"
  /\ line_no < MaxLines
  /\ line_no' = line_no + 1
  /\ error' = line_no + 1
  /\ pc' = "error"
  /\ UNCHANGED <<args_out, row, total_lines, missing_in_dataset, acc_sum,
                 count, detailed, summary, report>>
  /\ UNCHANGED <<manual_map, norm_vars, score_vars>>

\* ord(c) of an ASCII letter, up to the order of the code points
ord(c) ==
  CHOOSE i \in 1..(Len(UpperCase) + Len(LowerCase)) :
    (UpperCase \o LowerCase)[i] = c

\* s < t on two str of ASCII letters
StrLess(s, t) ==
  \/ \E i \in 1..Len(s) :
       /\ i <= Len(t)
       /\ ord(s[i]) < ord(t[i])
       /\ \A k \in 1..(i - 1) : s[k] = t[k]
  \/ Len(s) < Len(t) /\ \A k \in 1..Len(s) : s[k] = t[k]

\* sorted(ks) for a set of str
RECURSIVE sorted(_)
sorted(ks) ==
  IF ks = {} THEN <<>>
  ELSE LET k == CHOOSE x \in ks : \A y \in ks \ {x} : StrLess(x, y)
       IN  <<k>> \o sorted(ks \ {k})

\* line 400 as "overall_acc_sum = acc_sum[p]"
SumAcc_Last(f, ks) == IF ks = <<>> THEN Zero ELSE f[ks[Len(ks)]]

\* overall_acc_sum after the loop of lines 396-401 over the keys ks in
\* this order: 0.0 + f[ks[1]] + f[ks[2]] + ...
RECURSIVE SumAcc(_, _)
SumAcc(f, ks) ==
  IF ks = <<>> THEN Zero
  ELSE FAdd(SumAcc(f, SubSeq(ks, 1, Len(ks) - 1)), f[ks[Len(ks)]])

\* overall_n after the loop of lines 396-401 over the keys ks
RECURSIVE SumCount(_, _)
SumCount(f, ks) ==
  IF ks = {} THEN 0
  ELSE LET k == CHOOSE x \in ks : TRUE
       IN  SumCount(f, ks \ {k}) + f[k]

\* lines 392-413
Summarize ==
  LET per_preproc ==
        [p \in DOMAIN count |->
           [n |-> count[p],
            accuracy |-> IF count[p] # 0 THEN FDiv(acc_sum[p], count[p])
                         ELSE Zero]]
      overall_acc_sum == SumAcc(acc_sum, sorted(DOMAIN count))
      overall_n == SumCount(count, DOMAIN count)
  IN  [total_response_lines |-> total_lines,
       matched_predictions |-> overall_n,
       missing_in_dataset |-> missing_in_dataset,
       overall_accuracy_official_vqa |->
         IF overall_n # 0 THEN FDiv(overall_acc_sum, overall_n) ELSE Zero,
       per_preprocessor |-> per_preproc]

\* the end of responses.jsonl: lines 391-439
EndOfFile ==
  /\ pc = "loop"
  /\ summary' = Summarize
  /\ report' = IF args_out
               THEN [summary |-> Summarize, details |-> detailed]
               ELSE NoReport
  /\ pc' = "done"
  /\ UNCHANGED <<args_out, line_no, row, total_lines, missing_in_dataset,
                 acc_sum, count, detailed, error>>
  /\ UNCHANGED <<manual_map, norm_vars, score_vars>>

NormIdle == in_text = <<>> /\ stage = "idle" /\ out_text = <<>> /\ prev_text = <<>>
ScoreIdle == pred_answer = <<>> /\ human_answers = <<>> /\ ret = NoReturn
MainIdle ==
  /\ pc = "idle" /\ args_out = FALSE /\ line_no = 0 /\ row = NoRow
  /\ total_lines = 0 /\ missing_in_dataset = 0
  /\ acc_sum = <<>> /\ count = <<>> /\ detailed = <<>>
  /\ summary = NoSummary /\ report = NoReport /\ error = 0

\* main() at line 354, with both files present
Init ==
  /\ manual_map = _MANUAL_MAP
  /\ pc = "loop"
  /\ args_out \in BOOLEAN
  /\ line_no = 0
  /\ row = NoRow
  /\ total_lines = 0
  /\ missing_in_dataset = 0
  /\ acc_sum = <<>>
  /\ count = <<>>
  /\ detailed = <<>>
  /\ summary = NoSummary
  /\ report = NoReport
  /\ error = 0
  /\ NormIdle
  /\ ScoreIdle

Next ==
  \/ \E r \in Rows : ReadRow(r)
  \/ ReadBlank
  \/ ReadMalformed
  \/ EndOfFile

Spec == Init /\ [][Next]_vars

(***************************************************************************)
(* Calls of the normaliser on bounded inputs                               *)
(***************************************************************************)
\* the longest string enumerated over NormAlphabet
MaxLen == 4

\* the longest run of periods tried
MaxPeriods == 33

NormAlphabet == {"a", "A", "1", ".", ",", "-", " ", "\n"}

StringsUpTo(n) == UNION {[1..k -> NormAlphabet] : k \in 0..n}

PeriodRun(n) == [i \in 1..n |-> "."]

NormExamples ==
  { None, red, RedDot, two, <<"2">>, <<"n","o","n","e">>, <<"T","e","n">>,
    <<"d","o","g">>, <<"a"," ","d","o","g">>, <<"d","o","g",".">>,
    <<"t","h","e","\t","d","o","g"," ","a","n">>,
    <<"3",".","5">>, <<"a",".","5">>, <<".","5">>,
    <<"1",",","0","0","0">>, <<"1",",","0","0","0"," ","a","-","b">>,
    <<"a","-","b"," ","c","-","d">>, <<"a","-","b"," ","c","-"," ","d">>,
    <<"1","-","1","-">>, <<"1","-","1","-"," ","a">>,
    <<"r","e","-","d">>, <<"r","e"," ","d">>,
    <<"D","o","n","t">>, <<"w","h","a","t","s"," ","u","p","?">> }

NormInputs ==
  StringsUpTo(MaxLen) \cup NormExamples
  \cup {PeriodRun(n) : n \in 0..MaxPeriods}
  \cup {_CONTRACTIONS_ITEMS[i][1] : i \in 1..Len(_CONTRACTIONS_ITEMS)}
  \cup {_CONTRACTIONS_ITEMS[i][2] : i \in 1..Len(_CONTRACTIONS_ITEMS)}

InitNorm ==
  /\ manual_map = _MANUAL_MAP
  /\ in_text \in NormInputs
  /\ stage = "raw"
  /\ out_text = <<>>
  /\ prev_text = <<>>
  /\ ScoreIdle
  /\ MainIdle

\* normalize(in_text)
Normalize ==
  /\ stage = "raw"
  /\ LET r == normalize(in_text, manual_map)
     IN  out_text' = r.out /\ manual_map' = r.map
  /\ stage' = "once"
  /\ UNCHANGED <<in_text, prev_text, score_vars, main_vars>>

\* normalize(out_text): the normaliser applied to its own result
Renormalize ==
  /\ stage = "once"
  /\ LET r == normalize(out_text, manual_map)
     IN  out_text' = r.out /\ manual_map' = r.map
  /\ prev_text' = out_text
  /\ stage' = "twice"
  /\ UNCHANGED <<in_text, score_vars, main_vars>>

NextNorm == Normalize \/ Renormalize

SpecNorm == InitNorm /\ [][NextNorm]_vars

(***************************************************************************)
(* Calls of the scorer on bounded inputs                                   *)
(***************************************************************************)
\* the longest reference list enumerated over RefPool
MaxRefs == 3

RefPool == {red, RedDot, blue}

PredPool ==
  { red, RedDot, <<"R","E","D">>, <<"r","e","-","d">>, <<"r","e"," ","d">>,
    blue, <<>>, <<"t","h","e"," ","r","e","d">>, None }

\* the reference list of the leave-one-out example
ExampleRefs ==
  << red, red, red, blue, <<"g","r","e","e","n">>,
     <<"y","e","l","l","o","w">>, <<"b","l","a","c","k">>,
     <<"w","h","i","t","e">>, <<"p","i","n","k">>, <<"b","r","o","w","n">> >>

\* reference lists beyond the enumeration: ten unanimous references, more
\* than four matching references, references that differ only in the
\* whitespace _preclean removes, two orders of the same four references,
\* a reference that is an article, a reference that is None
LongRefLists ==
  { ExampleRefs,
    [i \in 1..10 |-> red],
    <<red, red, red, red, red, blue>>,
    <<red, RedDot, red, red, red, red, blue>>,
    <<red, <<" ","r","e","d">>, <<"r","e","d","\n">>>>,
    <<red, <<"\t","r","e","d">>, blue>>,
    <<red, blue, red, blue>>,
    <<blue, blue, red, red>>,
    <<<<"t","h","e">>, red>>,
    <<None, red>> }

RefLists == UNION {[1..k -> RefPool] : k \in 0..MaxRefs} \cup LongRefLists

InitScore ==
  /\ manual_map = _MANUAL_MAP
  /\ pred_answer \in PredPool
  /\ human_answers \in RefLists
  /\ ret = NoReturn
  /\ NormIdle
  /\ MainIdle

\* vqa_official_accuracy(pred_answer, human_answers)
Score ==
  /\ ret = NoReturn
  /\ LET r == vqa_official_accuracy(pred_answer, human_answers, manual_map)
     IN  /\ ret' = [acc |-> r.acc, m_total |-> r.m_total,
                    pred_used |-> r.pred_used, humans_used |-> r.humans_used,
                    used_norm |-> r.used_norm]
         /\ manual_map' = r.map
  /\ UNCHANGED <<pred_answer, human_answers, norm_vars, main_vars>>

NextScore == Score

SpecScore == InitScore /\ [][NextScore]_vars

(***************************************************************************)
(* Properties of the scorer (SpecScore)                                    *)
(***************************************************************************)
Returned == ret # NoReturn

\* C1: for every prediction and every reference list with at least one
\* reference, the accuracy a returned satisfies 0 <= a <= 1.
C1_BoundedAccuracy ==
  (Returned /\ Len(human_answers) >= 1) =>
     /\ FLeq(Zero, ret.acc)
     /\ FLeq(ret.acc, One)

\* C1 witness: five matching references among the others, where
\* min(1.0, matching / 3.0) cuts 4/3 and 5/3 down to 1
C1_Witness ==
  /\ Returned
  /\ human_answers = <<red, red, red, red, red, blue>>
  /\ pred_answer = red
  /\ ret.m_total = 5
  /\ ret.acc = One

\* C2: for k >= 1 references the accuracy is the mean over every index i of
\* min(1, (processed references at indices other than i equal to the
\* processed prediction) / 3), the terms added in index order; the example
\* list with prediction "red" gives the float 9/10 (0.9).
C2_LeaveOneOutMean ==
  (Returned /\ Len(human_answers) >= 1) =>
     LET k == Len(ret.humans_used)
         others(i) == Cardinality({j \in (1..k) \ {i} :
                                     ret.humans_used[j] = ret.pred_used})
         term(i) == IF others(i) >= 3 THEN One
                    ELSE FDiv(float(others(i)), 3)
     IN  /\ k = Len(human_answers)
         /\ ret.acc = FDiv(FSum([i \in 1..k |-> term(i)]), k)
         /\ (human_answers = ExampleRefs /\ pred_answer = red) =>
               ret.acc = FDiv(float(9), 10)

\* C2 witness: the example has been scored
C2_Witness ==
  /\ Returned
  /\ human_answers = ExampleRefs
  /\ pred_answer = red
  /\ ret.m_total = 3
  /\ ret.acc = FDiv(float(9), 10)

\* C3: normalization_applied is true, and every reference and the
\* prediction went through the punctuation and digit/article/contraction
\* passes, exactly when two precleaned references differ; otherwise the
\* precleaned strings are compared unchanged and normalization_applied is
\* false.
C3_Gate ==
  Returned =>
     LET k == Len(human_answers)
         clean == [i \in 1..k |-> _preclean(human_answers[i])]
         differ == \E i, j \in 1..k : clean[i] # clean[j]
         passes(s) ==
           _process_digit_article(_process_punctuation(s), _MANUAL_MAP).out
     IN  /\ ret.used_norm <=> differ
         /\ differ =>
              /\ ret.humans_used = [i \in 1..k |-> passes(clean[i])]
              /\ ret.pred_used = passes(_preclean(pred_answer))
         /\ ~differ =>
              /\ ret.humans_used = clean
              /\ ret.pred_used = _preclean(pred_answer)

\* C3 witness: the gate opened and the passes changed a reference and the
\* prediction
C3_Witness ==
  /\ Returned
  /\ ret.used_norm
  /\ human_answers = <<red, RedDot, blue>>
  /\ pred_answer = RedDot
  /\ ret.humans_used = <<red, red, blue>>
  /\ ret.pred_used = red

PunctuationMarks == {_PUNCT_LIST[i] : i \in 1..Len(_PUNCT_LIST)} \cup {"."}

\* s without the characters in cs
Without(s, cs) == SelectSeq(s, LAMBDA c : c \notin cs)

\* p and r are different strings that agree up to letter case and
\* punctuation marks
DiffersByCaseOrPunctuation(p, r) ==
  /\ p # r
  /\ Lower(Without(p, PunctuationMarks)) = Lower(Without(r, PunctuationMarks))

\* C4: when all references are the identical string and the prediction
\* differs from it only by case or punctuation, the scorer returns
\* normalization_applied = false, match_count = 0 and accuracy = 0.0.
C4_UnanimousGate ==
  ( /\ Returned
    /\ Len(human_answers) >= 1
    /\ \A i \in 1..Len(human_answers) : human_answers[i] = human_answers[1]
    /\ DiffersByCaseOrPunctuation(pred_answer, human_answers[1]) )
  => /\ ret.used_norm = FALSE
     /\ ret.m_total = 0
     /\ ret.acc = Zero

\* C4 witness: ten references "red" and the prediction "Red."
C4_Witness ==
  /\ Returned
  /\ human_answers = [i \in 1..10 |-> red]
  /\ pred_answer = RedDot
  /\ ret.acc = Zero
  /\ ret.pred_used = RedDot

UpperChar(c) ==
  IF \E i \in 1..Len(LowerCase) : LowerCase[i] = c
  THEN UpperCase[CHOOSE i \in 1..Len(LowerCase) : LowerCase[i] = c]
  ELSE c

Upper(s) == [i \in 1..Len(s) |-> UpperChar(s[i])]

\* the accuracy and match_count of prediction p against the references of
\* the call, scored next in the same process
ScoreOf(p) ==
  LET r == vqa_official_accuracy(p, human_answers, manual_map)
  IN  <<r.acc, r.m_total>>

\* p without punctuation marks and whitespace, in lower case
Squash(p) == Lower(Without(p, PunctuationMarks \cup Whitespace))

\* C5 as stated: once normalization is applied, two predictions that differ
\* only in letter case, in punctuation marks or in whitespace receive the
\* same accuracy and the same match_count.
C5_Original ==
  (Returned /\ ret.used_norm) =>
     \A p \in PredPool :
        Squash(p) = Squash(pred_answer) =>
           ScoreOf(p) = <<ret.acc, ret.m_total>>

\* the listed marks tried at the end of a prediction
AppendedMarks == {"!", "-", ","}

\* predictions that differ from p only in the case of letters, in leading
\* or trailing whitespace, in which of space, newline and tab stands for a
\* whitespace character, or in one listed mark appended directly after
\* the last character of a p that does not end in whitespace
HarmlessVariants(p) ==
  { Upper(p), Lower(p),
    <<" ", "\n">> \o p \o <<"\t">>,
    Replace(p, " ", <<"\n">>),
    Replace(p, " ", <<"\t">>) }
  \cup
  { p \o <<c>> : c \in IF p # <<>> /\ p[Len(p)] \notin Whitespace
                       THEN AppendedMarks ELSE {} }

\* C5 as amended: once normalization is applied, two predictions that
\* differ only in the case of letters, in leading or trailing whitespace,
\* in the choice of space, newline or tab, or in one listed punctuation
\* mark appended at the end receive the same accuracy and match_count.
C5_CaseAndOuterWhitespace ==
  (Returned /\ ret.used_norm /\ pred_answer # None) =>
     \A p \in HarmlessVariants(pred_answer) :
        ScoreOf(p) = <<ret.acc, ret.m_total>>

\* C5 witness: an upper-case prediction matched two normalized references
C5_Witness ==
  /\ Returned
  /\ ret.used_norm
  /\ human_answers = <<red, RedDot, blue>>
  /\ pred_answer = <<"R","E","D">>
  /\ ret.m_total = 2
  /\ Lower(pred_answer) # pred_answer

(***************************************************************************)
(* Properties of the normaliser (SpecNorm)                                 *)
(***************************************************************************)
\* C6: the full pipeline is idempotent: applied to its own output it
\* returns that output unchanged, for every input string.
C6_Idempotent == (stage = "twice") => (out_text = prev_text)

\* the normalized form of s, normalized next in the same process
NormOf(s) == normalize(s, manual_map).out

Letters == {UpperCase[i] : i \in 1..Len(UpperCase)}
           \cup {LowerCase[i] : i \in 1..Len(LowerCase)}

\* a non-empty string of letters, digits and apostrophes
IsWord(s) ==
  /\ s # None
  /\ s # <<>>
  /\ \A i \in 1..Len(s) : s[i] \in Letters \cup Digits \cup {"'"}

\* C7: for every entry key -> value of the contraction table the
\* normalized form of the key equals that of the value, and a trailing
\* period or a change of case does not change the normalized form of a word.
C7_ContractionCasePeriod ==
  (stage = "once") =>
     /\ in_text \in DOMAIN _CONTRACTIONS =>
           out_text = NormOf(_CONTRACTIONS[in_text])
     /\ IsWord(in_text) =>
           /\ NormOf(in_text \o <<".">>) = out_text
           /\ NormOf(Upper(in_text)) = out_text
           /\ NormOf(Lower(in_text)) = out_text

\* C7 witness: "dont" was normalized to "don't", the form of its value
C7_Witness ==
  /\ stage = "once"
  /\ in_text = <<"d","o","n","t">>
  /\ out_text = <<"d","o","n","'","t">>
  /\ _CONTRACTIONS[in_text] = out_text

\* the positions of s at which a whitespace-delimited token can be put:
\* the ends of s and the places next to a whitespace character
TokenGaps(s) ==
  {i \in 0..Len(s) :
     \/ i = 0 \/ i = Len(s)
     \/ s[i] \in Whitespace \/ s[i + 1] \in Whitespace}

\* s with the token tok put at the gap i
InsertToken(s, i, tok) ==
  SubSeq(s, 1, i) \o <<" ">> \o tok \o <<" ">> \o SubSeq(s, i + 1, Len(s))

\* the number words zero..ten with their digit strings
NumberWords ==
  {_MANUAL_MAP_ITEMS[i] : i \in 2..Len(_MANUAL_MAP_ITEMS)}

\* the strings got from s by replacing one token that is the number word
\* nw[1] by its digit string nw[2]
DigitForms(s, nw) ==
  {SubSeq(s, 1, i - 1) \o nw[2] \o SubSeq(s, i + Len(nw[1]), Len(s)) :
     i \in {j \in 1..(Len(s) - Len(nw[1]) + 1) :
              /\ SubSeq(s, j, j + Len(nw[1]) - 1) = nw[1]
              /\ (j - 1) \in TokenGaps(s)
              /\ (j + Len(nw[1]) - 1) \in TokenGaps(s)}}

\* C8: inserting (or deleting) a whitespace-delimited token "a", "an" or
\* "the" anywhere in a string does not change its normalized form, and
\* neither does replacing a number-word token zero..ten by its digits.
C8_ArticleNumberInvariance ==
  (stage = "once" /\ in_text # None) =>
     /\ \A art \in _ARTICLES : \A i \in TokenGaps(in_text) :
           NormOf(InsertToken(in_text, i, art)) = out_text
     /\ \A nw \in NumberWords : \A s \in DigitForms(in_text, nw) :
           NormOf(s) = out_text

(***************************************************************************)
(* Properties of the batch loop (Spec)                                     *)
(***************************************************************************)
SampleIdOf(r) == PyStr(Get(r, "sample_id", JStr(<<>>)))

\* the step is a loop iteration on a row whose sample_id is not in the
\* dataset
MissingRowStep ==
  /\ pc = "loop"
  /\ total_lines' = total_lines + 1
  /\ SampleIdOf(row') \notin DOMAIN dataset_by_id

\* C9: processing a record whose sample_id is absent from the lookup
\* increments missing_in_dataset by exactly one, leaves every group's count
\* and accuracy sum and the details list unchanged, and the loop goes on.
C9_MissingSample ==
  [][ MissingRowStep =>
        /\ missing_in_dataset' = missing_in_dataset + 1
        /\ UNCHANGED <<acc_sum, count, detailed>>
        /\ pc' = "loop" ]_vars

\* C9 witness: a scored row, then a row whose sample_id is unknown
C9_Witness ==
  /\ pc = "loop"
  /\ row # NoRow
  /\ SampleIdOf(row) \notin DOMAIN dataset_by_id
  /\ total_lines = 2
  /\ missing_in_dataset = 1
  /\ Len(detailed) = 1
  /\ DOMAIN count # {}

\* the step is a loop iteration on a row whose sample is in the dataset
\* with a reference list that is empty or not a list
UnscorableRowStep ==
  /\ pc = "loop"
  /\ total_lines' = total_lines + 1
  /\ SampleIdOf(row') \in DOMAIN dataset_by_id
  /\ LET answers == Get(dataset_by_id[SampleIdOf(row')], "answers",
                        JList(<<>>))
     IN  answers.t # "list" \/ Len(answers.v) = 0

\* C10: processing a record whose sample_id is in the lookup but whose
\* reference answer list is empty or not a list increments the missing
\* count by one and skips the record without scoring it.
C10_UnscorableCounted ==
  [][ UnscorableRowStep =>
        /\ missing_in_dataset' = missing_in_dataset + 1
        /\ UNCHANGED <<acc_sum, count, detailed>> ]_vars

\* C11: after any sequence of prediction records every input record has
\* been counted exactly once, as matched or as missing:
\* total_response_lines = matched_predictions + missing_in_dataset.
C11_CountedOnce ==
  (pc = "done") =>
     summary.total_response_lines =
       summary.matched_predictions + summary.missing_in_dataset

LabelOf(r) == PyStr(Get(r, "preprocessor", JStr(UNKNOWN)))

\* the accuracy of the prediction of row r against the references of its
\* sample, scored next in the same process
AccuracyOf(r) ==
  LET answers == dataset_by_id[SampleIdOf(r)].answers.v
  IN  vqa_official_accuracy(
        PyStr(Get(r, "assistant_text", JStr(<<>>))),
        [i \in 1..Len(answers) |-> PyStr(answers[i])], manual_map).acc

\* the step is a loop iteration on a row whose sample is in the dataset
\* with a non-empty reference list
ScoredRowStep ==
  /\ pc = "loop"
  /\ total_lines' = total_lines + 1
  /\ SampleIdOf(row') \in DOMAIN dataset_by_id
  /\ LET answers == Get(dataset_by_id[SampleIdOf(row')], "answers",
                        JList(<<>>))
     IN  answers.t = "list" /\ Len(answers.v) > 0

\* C12: the per-group n of the summary add up to matched_predictions, and
\* each scored record adds one to the count, and its accuracy to the
\* accuracy sum, of the group of its own label and of no other group.
C12_GroupPartition ==
  /\ [](pc = "done" =>
          SumCount([p \in DOMAIN summary.per_preprocessor |->
                      summary.per_preprocessor[p].n],
                   DOMAIN summary.per_preprocessor)
            = summary.matched_predictions)
  /\ [][ ScoredRowStep =>
           LET p == LabelOf(row')
           IN  /\ DOMAIN count' = DOMAIN count \cup {p}
               /\ DOMAIN acc_sum' = DOMAIN count'
               /\ count'[p] = (IF p \in DOMAIN count THEN count[p] ELSE 0) + 1
               /\ acc_sum'[p] =
                    FAdd(IF p \in DOMAIN acc_sum THEN acc_sum[p] ELSE Zero,
                         AccuracyOf(row'))
               /\ \A q \in DOMAIN count :
                    q # p => count'[q] = count[q] /\ acc_sum'[q] = acc_sum[q]
       ]_vars

\* C12 witness: three scored records in two groups
C12_Witness ==
  /\ pc = "done"
  /\ summary.matched_predictions = 3
  /\ Cardinality(DOMAIN summary.per_preprocessor) = 2
  /\ \E p \in DOMAIN count : count[p] = 2

\* the group labels of the detail records ds
Labels(ds) == {ds[i].preprocessor : i \in 1..Len(ds)}

\* the accuracies of the detail records of group p, in the order of ds
AccsOf(ds, p) ==
  LET OfGroup(d) == d.preprocessor = p
      sel == SelectSeq(ds, OfGroup)
  IN  [i \in 1..Len(sel) |-> sel[i].accuracy_official_vqa]

\* the summary numbers for scored records with the labels and accuracies
\* of ds, accumulated in the order of ds: per group the accuracies are
\* added from 0.0 on, the group sums are added in the order of the
\* sorted labels
NumericSummary(ds) ==
  [matched |-> Len(ds),
   per |-> [p \in Labels(ds) |->
              [n |-> Len(AccsOf(ds, p)),
               accuracy |-> FDiv(FSum(AccsOf(ds, p)), Len(AccsOf(ds, p)))]],
   overall |->
     IF ds = <<>> THEN Zero
     ELSE LET ks == sorted(Labels(ds))
          IN  FDiv(FSum([i \in 1..Len(ks) |-> FSum(AccsOf(ds, ks[i]))]),
                   Len(ds))]

\* C13: the overall accuracy is the sum of the accuracies of all scored
\* records (added per group in input order, then over the groups) divided
\* by matched_predictions, and is 0.0 with matched_predictions = 0 when no
\* record was scored; each group's accuracy is its accuracy sum divided by
\* its n.  The scored records are read from the details list.
C13_ReportedAccuracy ==
  (pc = "done") =>
     /\ (DOMAIN count = {}) =>
           /\ summary.matched_predictions = 0
           /\ summary.overall_accuracy_official_vqa = Zero
     /\ \A p \in DOMAIN summary.per_preprocessor :
           summary.per_preprocessor[p].accuracy =
             FDiv(acc_sum[p], summary.per_preprocessor[p].n)
     /\ args_out =>
           /\ summary.matched_predictions = NumericSummary(detailed).matched
           /\ summary.per_preprocessor = NumericSummary(detailed).per
           /\ summary.overall_accuracy_official_vqa =
                NumericSummary(detailed).overall
           /\ \A p \in Labels(detailed) :
                acc_sum[p] = FSum(AccsOf(detailed, p))

\* C13 witness: three scored records in two groups with an overall
\* accuracy strictly between 0 and 1
C13_Witness ==
  /\ pc = "done"
  /\ args_out
  /\ Len(detailed) = 3
  /\ Cardinality(Labels(detailed)) = 2
  /\ summary.overall_accuracy_official_vqa # Zero
  /\ summary.overall_accuracy_official_vqa # One

\* the permutations of 1..n
Perms(n) == {f \in [1..n -> 1..n] : \A i, j \in 1..n : f[i] = f[j] => i = j}

\* C14: the numeric summary is the same for every permutation of the
\* input records (and so for every order in which independently scored
\* records are reduced per group); only the order of the details depends
\* on the input order.
C14_OrderIndependent ==
  (pc = "done" /\ args_out) =>
     \A f \in Perms(Len(detailed)) :
        LET s == NumericSummary([i \in 1..Len(detailed) |-> detailed[f[i]]])
        IN  /\ s.matched = summary.matched_predictions
            /\ s.per = summary.per_preprocessor
            /\ s.overall = summary.overall_accuracy_official_vqa


\* the step of the loop that reads a line that is no JSON
MalformedLineStep == pc = "loop" /\ pc' = "error"

\* C21: if a non-blank line of responses.jsonl is not parseable, the run
\* aborts with an error that names the number of that line (blank lines
\* counted); the line is not passed to the scorer (no accumulator, counter
\* or detail changes), nothing follows the error, and no summary and no
\* report is produced.
C21_MalformedLine ==
  /\ [][ MalformedLineStep =>
           /\ error' = line_no + 1
           /\ line_no' = line_no + 1
           /\ UNCHANGED <<total_lines, missing_in_dataset, acc_sum, count,
                          detailed, manual_map, row, summary, report>>
       ]_vars
  /\ [][pc = "error" => UNCHANGED vars]_vars
  /\ [](pc = "error" =>
          /\ error = line_no
          /\ error >= 1
          /\ summary = NoSummary
          /\ report = NoReport)
  /\ [](pc # "error" => error = 0)

\* C21 witness: a blank line, a scored record, then a malformed third line
C21_Witness ==
  /\ pc = "error"
  /\ error = 3
  /\ total_lines = 1
  /\ DOMAIN count # {}

\* C22: with detail retention on (args.out), the details list is
\* append-only and holds one record per scored sample in input order: its
\* length is always the number of records scored so far, a scored record
\* is appended at the end with its own label, sample and accuracy, every
\* other step leaves the list as it is, and the report carries the list.
\* With retention off the list stays empty.
C22_DetailsAppendOnly ==
  /\ [](Len(detailed) =
          (IF args_out THEN SumCount(count, DOMAIN count) ELSE 0))
  /\ [][ /\ Len(detailed') >= Len(detailed)
         /\ SubSeq(detailed', 1, Len(detailed)) = detailed
         /\ (args_out /\ ScoredRowStep) =>
               /\ Len(detailed') = Len(detailed) + 1
               /\ detailed'[Len(detailed')].preprocessor = LabelOf(row')
               /\ detailed'[Len(detailed')].sample_id = SampleIdOf(row')
               /\ detailed'[Len(detailed')].accuracy_official_vqa =
                    AccuracyOf(row')
         /\ ~(args_out /\ ScoredRowStep) => detailed' = detailed
       ]_vars
  /\ []((pc = "done" /\ args_out) => report.details = detailed)

\* C22 witness: two scored records and one unmatched record with detail
\* retention on
C22_Witness ==
  /\ args_out
  /\ total_lines = 3
  /\ missing_in_dataset = 1
  /\ Len(detailed) = 2
  /\ detailed[1].sample_id # detailed[2].sample_id

\* the second scoring rule of the specification for the prediction of
\* row r: every string through the full pipeline (no gate), then
\* min(matches over all references / 3, 1) with no leave-one-out step
SimpleAccuracyOf(r) ==
  LET answers == dataset_by_id[SampleIdOf(r)].answers.v
      pred == NormOf(_preclean(PyStr(Get(r, "assistant_text", JStr(<<>>)))))
      refs == [i \in 1..Len(answers) |-> NormOf(_preclean(PyStr(answers[i])))]
      m == Cardinality({i \in 1..Len(refs) : refs[i] = pred})
  IN  FMin(FDiv(float(m), 3), One)

\* the accuracy main accumulates for row r when run with args.out = out:
\* line 371 reads no option
MainAccuracy(out, r) == AccuracyOf(r)

\* C23: a second scoring variant is selectable by configuration: for every
\* scored record some setting of the options of main makes the accuracy
\* that is accumulated min(matches over all references / 3, 1) over the
\* unconditionally normalized strings, while the default is the gated
\* leave-one-out rule.
C23_SecondVariantSelectable ==
  [][ ScoredRowStep =>
        /\ acc_sum'[LabelOf(row')] =
             FAdd(IF LabelOf(row') \in DOMAIN acc_sum
                  THEN acc_sum[LabelOf(row')] ELSE Zero,
                  MainAccuracy(args_out, row'))
        /\ \E out \in BOOLEAN :
              MainAccuracy(out, row') = SimpleAccuracyOf(row')
    ]_vars

\* the result of scoring row r in a process that has scored nothing
\* before: _MANUAL_MAP holds its initial entries
FreshResultOf(r) ==
  LET answers == dataset_by_id[SampleIdOf(r)].answers.v
  IN  vqa_official_accuracy(
        PyStr(Get(r, "assistant_text", JStr(<<>>))),
        [i \in 1..Len(answers) |-> PyStr(answers[i])], _MANUAL_MAP)

\* C27: the result of scoring a record does not depend on the records
\* scored earlier in the same process: the processed strings, match_count,
\* gate decision and accuracy are those of a process that scores this
\* record first.
C27_HistoryIndependent ==
  [][ ScoredRowStep =>
        \E p \in {LabelOf(row')}, fresh \in {FreshResultOf(row')} :
            /\ acc_sum'[p] =
                 FAdd(IF p \in DOMAIN acc_sum THEN acc_sum[p] ELSE Zero,
                      fresh.acc)
            /\ args_out =>
                 LET d == detailed'[Len(detailed')]
                 IN  /\ d.prediction_used_for_eval = fresh.pred_used
                     /\ d.human_answers_used_for_eval = fresh.humans_used
                     /\ d.used_normalization = fresh.used_norm
                     /\ d.matches_m_total = fresh.m_total
                     /\ d.accuracy_official_vqa = fresh.acc
    ]_vars

\* C27 witness: two records scored with the gate open, the second after
\* the first has added words to _MANUAL_MAP
C27_Witness ==
  /\ args_out
  /\ Len(detailed) = 2
  /\ detailed[1].used_normalization
  /\ detailed[2].used_normalization
  /\ detailed[2].matches_m_total > 0
  /\ manual_map # _MANUAL_MAP

(***************************************************************************)
(* Further properties of the scorer (SpecScore)                            *)
(***************************************************************************)
\* the reorderings of a list of n references that are compared: every
\* permutation of a list of at most four references, every exchange of
\* two references of a longer list
Reorderings(n) ==
  IF n <= 4 THEN Perms(n)
  ELSE {[k \in 1..n |-> IF k = i THEN j ELSE IF k = j THEN i ELSE k] :
          i \in 1..n, j \in 1..n}

\* C15: for a fixed prediction, the accuracy, match_count and
\* normalization_applied returned by vqa_official_accuracy are the same
\* for every permutation of the reference list.
C15_ReferenceOrder ==
  Returned =>
     \A f \in Reorderings(Len(human_answers)) :
        LET r == vqa_official_accuracy(
                   pred_answer,
                   [i \in 1..Len(human_answers) |-> human_answers[f[i]]],
                   _MANUAL_MAP)
        IN  /\ r.acc = ret.acc
            /\ r.m_total = ret.m_total
            /\ r.used_norm = ret.used_norm


\* a null input read as the empty string
NullAsEmpty(s) == IF s = None THEN <<>> ELSE s

\* s is a str: a sequence of characters, not None
IsStr(s) == \A i \in 1..Len(s) : <<s[i]>> # None

\* C17: the scorer (and the normaliser it applies) is total over strings:
\* for every prediction and every list of references, empty strings
\* included, the call returns a result, and a null prediction or reference
\* is treated as the empty string: the result is the result for the input
\* with "" in the place of every null, and every processed string is a str.
C17_TotalNullAsEmpty ==
  /\ [][ret = NoReturn => ret' # NoReturn]_vars
  /\ [](Returned =>
          LET r == vqa_official_accuracy(
                     NullAsEmpty(pred_answer),
                     [i \in 1..Len(human_answers) |->
                        NullAsEmpty(human_answers[i])],
                     _MANUAL_MAP)
          IN  /\ ret.acc = r.acc
              /\ ret.m_total = r.m_total
              /\ ret.used_norm = r.used_norm
              /\ ret.pred_used = r.pred_used
              /\ ret.humans_used = r.humans_used
              /\ IsStr(ret.pred_used)
              /\ Len(ret.humans_used) = Len(human_answers)
              /\ \A i \in 1..Len(ret.humans_used) : IsStr(ret.humans_used[i]))

\* C17 witness: a null prediction scored against a null and a non-empty
\* reference matches the null reference as the empty string does
C17_Witness ==
  /\ Returned
  /\ pred_answer = None
  /\ human_answers = <<None, red>>
  /\ ret.pred_used = <<>>
  /\ ret.humans_used = <<<<>>, red>>
  /\ ret.m_total = 1

\* C18: called with zero references, vqa_official_accuracy returns
\* accuracy 0.0, match_count 0 and normalization_applied = false for every
\* prediction (the mean of line 260 is not formed for an empty list), and
\* the prediction is only precleaned.
C18_ZeroReferences ==
  (Returned /\ human_answers = <<>>) =>
     /\ ret.acc = Zero
     /\ ret.m_total = 0
     /\ ~ret.used_norm
     /\ ret.humans_used = <<>>
     /\ ret.pred_used = _preclean(pred_answer)

\* C18 witness: a prediction the normaliser would change, scored against
\* no reference
C18_Witness ==
  /\ Returned
  /\ human_answers = <<>>
  /\ pred_answer = RedDot
  /\ ret.pred_used = RedDot
  /\ ret.acc = Zero

\* C19: match_count is the number of processed references equal to the
\* processed prediction, over the processed strings the result reports
\* (one per reference, the ones the accuracy is computed from), and lies
\* between 0 and the number of references.
C19_MatchCount ==
  Returned =>
     /\ Len(ret.humans_used) = Len(human_answers)
     /\ ret.m_total =
          Cardinality({j \in 1..Len(human_answers) :
                         ret.humans_used[j] = ret.pred_used})
     /\ 0 <= ret.m_total
     /\ ret.m_total <= Len(human_answers)
     /\ ret.acc = MeanAcc(gt_acc(ret.humans_used, ret.pred_used))
     /\ ret.humans_used =
          [j \in 1..Len(human_answers) |->
             IF ret.used_norm THEN NormOf(_preclean(human_answers[j]))
             ELSE _preclean(human_answers[j])]
     /\ ret.pred_used =
          (IF ret.used_norm THEN NormOf(_preclean(pred_answer))
           ELSE _preclean(pred_answer))

\* C19 witness: six of seven references match after normalization
C19_Witness ==
  /\ Returned
  /\ Len(human_answers) = 7
  /\ ret.used_norm
  /\ ret.m_total = 6

\* C20 as stated: if every raw reference is a non-empty string, an empty
\* prediction gets match_count 0 and accuracy 0.0.
C20_Original ==
  (/\ Returned
   /\ pred_answer = <<>>
   /\ \A j \in 1..Len(human_answers) :
         human_answers[j] # None /\ human_answers[j] # <<>>)
  => (ret.m_total = 0 /\ ret.acc = Zero)

\* C20: an empty prediction is scored like any other answer: its processed
\* form is the empty string, it matches exactly the references whose
\* processed form is empty, and if every processed reference is non-empty
\* it gets match_count 0 and accuracy 0.0.
C20_EmptyPrediction ==
  (Returned /\ pred_answer = <<>>) =>
     /\ ret.pred_used = <<>>
     /\ ret.m_total =
          Cardinality({j \in 1..Len(human_answers) :
                         ret.humans_used[j] = <<>>})
     /\ (\A j \in 1..Len(human_answers) : ret.humans_used[j] # <<>>)
           => (ret.m_total = 0 /\ ret.acc = Zero)

\* C20 witness: the empty prediction scored against four non-empty
\* references with the gate open
C20_Witness ==
  /\ Returned
  /\ pred_answer = <<>>
  /\ human_answers = <<red, blue, red, blue>>
  /\ ret.used_norm
  /\ ret.m_total = 0
  /\ ret.acc = Zero

\* C28: for k >= 1 references the accuracy is exactly 1.0 if and only if
\* match_count >= 4.
C28_FullScore ==
  (Returned /\ Len(human_answers) >= 1) =>
     ((ret.acc = One) <=> (ret.m_total >= 4))

\* C28 witness: five of six references match and the accuracy is 1.0
C28_Witness ==
  /\ Returned
  /\ Len(human_answers) = 6
  /\ ret.m_total = 5
  /\ ret.acc = One

\* C29: with exactly one reference the accuracy is 0.0 for every
\* prediction, also for one equal to the reference (match_count 1); with
\* two or more references match_count >= 1 implies accuracy > 0 and
\* match_count = 0 implies accuracy 0.0.
C29_SingleReference ==
  Returned =>
     /\ (Len(human_answers) = 1) => ret.acc = Zero
     /\ (Len(human_answers) >= 2 /\ ret.m_total >= 1) =>
           (FLeq(Zero, ret.acc) /\ ret.acc # Zero)
     /\ (Len(human_answers) >= 2 /\ ret.m_total = 0) => ret.acc = Zero

\* C29 witness: the prediction equals the only reference and scores 0.0
C29_Witness ==
  /\ Returned
  /\ human_answers = <<red>>
  /\ pred_answer = red
  /\ ret.m_total = 1
  /\ ret.acc = Zero

\* C30: for a fixed number of references the accuracy is a non-decreasing
\* function of match_count alone: a call with the same prediction on any
\* reference list of the same length returns the same accuracy if its
\* match_count is the same, and no smaller accuracy if its match_count is
\* larger.
C30_FunctionOfMatchCount ==
  Returned =>
     \A refs \in {h \in RefLists : Len(h) = Len(human_answers)} :
        LET r == vqa_official_accuracy(pred_answer, refs, _MANUAL_MAP)
        IN  /\ (r.m_total = ret.m_total) => r.acc = ret.acc
            /\ (r.m_total > ret.m_total) => FLeq(ret.acc, r.acc)

(***************************************************************************)
(* Further properties of the normaliser (SpecNorm)                         *)
(***************************************************************************)
\* the punctuation marks of text replaced occurrence by occurrence, from
\* the i-th character on: a mark next to a space, and a comma between two
\* digits, is deleted, every other mark becomes one space
RECURSIVE PerOccurrence(_, _)
PerOccurrence(text, i) ==
  IF i > Len(text) THEN <<>>
  ELSE LET mark == \E k \in 1..Len(_PUNCT_LIST) : _PUNCT_LIST[k] = text[i]
           spaced == \/ i > 1 /\ text[i - 1] = " "
                     \/ i < Len(text) /\ text[i + 1] = " "
           comma == /\ text[i] = ","
                    /\ i > 1 /\ text[i - 1] \in Digits
                    /\ i < Len(text) /\ text[i + 1] \in Digits
       IN  (IF ~mark THEN <<text[i]>>
            ELSE IF spaced \/ comma THEN <<>>
            ELSE <<" ">>) \o PerOccurrence(text, i + 1)

\* C24: in the punctuation pass each occurrence of a listed mark is
\* decided by its own context: the text after the loop over the marks is
\* the precleaned text with every occurrence next to a space, and every
\* comma between two digits, deleted and every other occurrence replaced
\* by one space.
C24_PerOccurrence ==
  (stage = "once") =>
     PunctLoop(_preclean(in_text), _preclean(in_text), 1)
       = PerOccurrence(_preclean(in_text), 1)

\* text without its periods, except the periods immediately between two
\* digits
StripPeriods(text) ==
  LET keep == {i \in 1..Len(text) :
                 \/ text[i] # "."
                 \/ /\ i > 1 /\ text[i - 1] \in Digits
                    /\ i < Len(text) /\ text[i + 1] \in Digits}
      F[i \in 0..Len(text)] ==
        IF i = 0 THEN <<>>
        ELSE IF i \in keep THEN Append(F[i - 1], text[i]) ELSE F[i - 1]
  IN  F[Len(text)]

\* C25: after the punctuation pass every period that is not immediately
\* between two digits has been removed, however many periods there are,
\* and every period immediately between two digits is kept.
C25_PeriodStrip ==
  (stage = "once") =>
     _process_punctuation(_preclean(in_text))
       = StripPeriods(PunctLoop(_preclean(in_text), _preclean(in_text), 1))

\* the digit/article/contraction pass on the tokens ws as the claim words
\* it, for the number words nws (pairs of word and digit string): a number
\* word becomes its digit string, an article is dropped, a contraction
\* key becomes its value, every other token stays
PassBy(ws, nws) ==
  LET Digit(w) == IF \E nw \in nws : nw[1] = w
                  THEN (CHOOSE nw \in nws : nw[1] = w)[2] ELSE w
      F[i \in 0..Len(ws)] ==
        IF i = 0 THEN <<>>
        ELSE IF Digit(ws[i]) \in _ARTICLES THEN F[i - 1]
        ELSE Append(F[i - 1],
                    IF Digit(ws[i]) \in DOMAIN _CONTRACTIONS
                    THEN _CONTRACTIONS[Digit(ws[i])] ELSE Digit(ws[i]))
  IN  Join(F[Len(ws)])

\* the lowercased tokens the digit/article pass gets for the input s
TokensOf(s) == Split(Lower(_process_punctuation(_preclean(s))))

\* C26 as stated: a token is replaced by a digit string only if it is one
\* of the number words zero, one, ..., ten.
C26_Original ==
  (stage = "once") => out_text = PassBy(TokensOf(in_text), NumberWords)

\* C26: a token is replaced by a digit string only if it is a key of the
\* number-word table (none, zero, one, ..., ten); every other token that
\* is neither an article nor a contraction-table key is left unchanged
\* (apart from lowercasing).
C26_NumberWordTable ==
  (stage = "once") =>
     out_text =
       PassBy(TokensOf(in_text),
              {_MANUAL_MAP_ITEMS[i] : i \in 1..Len(_MANUAL_MAP_ITEMS)})

\* C26 witness: "Ten" is lowercased and replaced by "10"
C26_Witness ==
  /\ stage = "once"
  /\ in_text = <<"T","e","n">>
  /\ out_text = <<"1","0">>

\* C16: normalizing any input leaves the module-level tables unchanged:
\* after any sequence of calls the number-word map holds exactly its
\* initial entries (the contraction table, the article set and the
\* punctuation list are never assigned to and are definitions here).
C16_TablesUnchanged == manual_map = _MANUAL_MAP

=============================================================================
